---------------------------- MODULE Spec2Model ----------------------------
(***************************************************************************)
(* Chinook analysis pipeline (src/main.py): main() opens the database and  *)
(* runs four aggregation stages in sequence.  The tables of the database   *)
(* are the inputs; every stage is one action that computes the data frames *)
(* the stage prints and plots.                                             *)
(*                                                                         *)
(* Data frames are sequences of records (one record per row, one field per *)
(* column).  Money and quantities are exact integers.  Text labels         *)
(* (country, genre, title, person names) are coded as positive integers    *)
(* whose numeric order is the labels' lexical order; the year-month label  *)
(* is built character by character, as a sequence of ASCII codes.          *)
(***************************************************************************)
EXTENDS Integers, Sequences, FiniteSets, TLC

VARIABLES
    db_exists,      \* os.path.exists("data/Chinook.sqlite")
    Invoice, Customer, Employee, InvoiceLine, Track, Genre, Album, Artist,
    pc,             \* the statement of main() to run next
    error,          \* the exception that left main(), "none" if none
    stdout,         \* the section headers printed so far
    invoices,       \* the frame analyze_revenue returns
    total_revenue, avg_invoice, monthly_revenue,
    revenue_by_customer, top_customers, revenue_by_country, top3,
    genre_agg, artist_agg, album_agg,
    sales_by_rep

tables == <<db_exists, Invoice, Customer, Employee, InvoiceLine, Track, Genre,
            Album, Artist>>
revenue_out == <<invoices, total_revenue, avg_invoice, monthly_revenue>>
customers_out == <<revenue_by_customer, top_customers, revenue_by_country, top3>>
genres_out == <<genre_agg, artist_agg, album_agg>>
vars == <<tables, pc, error, stdout, revenue_out, customers_out, genres_out, sales_by_rep>>

-----------------------------------------------------------------------------
(* Bounds of the inputs *)

MaxInvoices == 3
\* invoices of the revenue inputs

MaxCustInvoices == 3
\* invoices of the customer inputs

MaxCountryInvoices == 4
\* invoices of the country inputs

NumWide == 11
\* customers of the one-invoice-per-customer inputs

MaxSalesInvoices == 2
\* invoices of the sales-representative inputs

MaxLines == 2
\* invoice lines of the catalog inputs

-----------------------------------------------------------------------------
(* pandas primitives *)

\* A SQL NULL as pandas holds it in a key or label column (None / NaN).
NULL == 0

\* isna of a group key: a key of an integer or float column is NA when it is
\* NULL; the strings of an object column that astype(str) made never are.
isna(dtype, x) == IF dtype = "object" THEN FALSE ELSE x = NULL

Min(a, b) == IF a < b THEN a ELSE b

\* Series.sum(): the sum of a column, 0 for an empty frame.
RECURSIVE sum(_, _)
sum(df, col) ==
    IF df = <<>> THEN 0 ELSE df[1][col] + sum(Tail(df), col)

\* Series.mean(): sum / count; NaN (no exception) for an empty column.
mean(df, col) ==
    IF Len(df) = 0
    THEN [kind |-> "nan", num |-> 0, den |-> 1]
    ELSE [kind |-> "value", num |-> sum(df, col), den |-> Len(df)]

\* Rows of df whose column col equals k, in frame order.
RECURSIVE rows_with(_, _, _)
rows_with(df, col, k) ==
    IF df = <<>> THEN <<>>
    ELSE (IF df[1][col] = k THEN <<df[1]>> ELSE <<>>)
         \o rows_with(Tail(df), col, k)

\* The order of character strings (lexicographic on codes).
str_lt(a, b) ==
    \E i \in 1..Min(Len(a), Len(b)) + 1 :
        /\ \A j \in 1..(i - 1) : a[j] = b[j]
        /\ \/ i = Len(a) + 1 /\ i <= Len(b)
           \/ i <= Len(a) /\ i <= Len(b) /\ a[i] < b[i]

\* The order of group keys: numbers by value, strings lexicographically.
key_lt(dtype, a, b) == IF dtype = "object" THEN str_lt(a, b) ELSE a < b

\* The group keys groupby keeps: dropna=True discards the rows whose key is NA.
group_keys(df, by, dtype) ==
    {k \in {df[i][by] : i \in DOMAIN df} : ~isna(dtype, k)}

\* df.groupby(by)[col].sum().reset_index(), by a column of the given dtype:
\* one row per kept key, keys ascending (sort=True), the column summed over
\* the key's rows.
groupby_sum(df, by, col, dtype) ==
    LET keys == group_keys(df, by, dtype)
    IN  [i \in 1..Cardinality(keys) |->
            LET k == CHOOSE k \in keys :
                        Cardinality({j \in keys : key_lt(dtype, j, k)}) = i - 1
            IN  (by :> k) @@ (col :> sum(rows_with(df, by, k), col))]

\* Whether row a may precede row b in the sorted frame.
before(a, b, col, ascending) ==
    IF ascending THEN a[col] <= b[col] ELSE a[col] >= b[col]

\* The row orders sort_values may produce.  kind defaults to "quicksort",
\* which is not stable: rows with equal keys come out in any order.
RECURSIVE orders(_, _, _, _)
orders(df, col, ascending, idx) ==
    IF idx = {} THEN {<<>>}
    ELSE UNION {
            {<<i>> \o rest : rest \in orders(df, col, ascending, idx \ {i})} :
            i \in {c \in idx : \A j \in idx : before(df[c], df[j], col, ascending)}}

\* df.sort_values(col, ascending=...) on a numeric column: the possible results.
sort_values(df, col, ascending) ==
    {[k \in 1..Len(df) |-> df[p[k]]] : p \in orders(df, col, ascending, DOMAIN df)}

\* df.sort_values(col) on a column of strings with distinct values.
sort_values_str(df, col) ==
    [k \in 1..Len(df) |->
        df[CHOOSE i \in DOMAIN df :
              Cardinality({j \in DOMAIN df : str_lt(df[j][col], df[i][col])}) = k - 1]]

\* df.head(n + 1) in place of df.head(n)
head_off_by_one(df, n) == SubSeq(df, 1, Min(n + 1, Len(df)))

\* df.head(n)
head(df, n) == SubSeq(df, 1, Min(n, Len(df)))

\* left.merge(right, left_on=..., right_on=..., how="left"): every left row,
\* once per matching right row, or once with the right columns NA.
RECURSIVE matches(_, _, _, _)
matches(l, right, left_on, right_on) ==
    IF right = <<>> THEN <<>>
    ELSE (IF right[1][right_on] = l[left_on] THEN <<l @@ right[1]>> ELSE <<>>)
         \o matches(l, Tail(right), left_on, right_on)

RECURSIVE merge_left(_, _, _, _, _)
merge_left(left, right, left_on, right_on, right_cols) ==
    IF left = <<>> THEN <<>>
    ELSE LET m == matches(left[1], right, left_on, right_on)
         IN  (IF m = <<>>
              THEN <<left[1] @@ [c \in right_cols |-> NULL]>>
              ELSE m)
             \o merge_left(Tail(left), right, left_on, right_on, right_cols)

-----------------------------------------------------------------------------
(* Dates *)

\* pd.to_datetime rejects a string that is no date (month 13, say).
parses(d) == d.month \in 1..12 /\ d.day \in 1..31

\* Decimal digits as ASCII codes.
Digit(n) == 48 + n

\* "%m" without its leading zero
two_digits_unpadded(n) ==
    IF n < 10 THEN <<Digit(n)>> ELSE <<Digit(n \div 10), Digit(n % 10)>>

two_digits(n) == <<Digit(n \div 10), Digit(n % 10)>>

four_digits(n) ==
    <<Digit(n \div 1000), Digit((n \div 100) % 10), Digit((n \div 10) % 10),
      Digit(n % 10)>>

\* .dt.to_period("M").astype(str): "YYYY-MM"
year_month(row) ==
    four_digits(row.InvoiceDate.year) \o <<45>> \o two_digits(row.InvoiceDate.month)

-----------------------------------------------------------------------------
(* The stages *)

unset == [kind |-> "unset", num |-> 0, den |-> 1]

setup_engine ==
    /\ pc = "setup"
    /\ IF db_exists
       THEN pc' = "revenue" /\ error' = error
       ELSE pc' = "raised" /\ error' = "FileNotFoundError"
    /\ stdout' = Append(stdout, "Starting Chinook Analysis")
    /\ UNCHANGED <<tables, revenue_out, customers_out, genres_out, sales_by_rep>>

analyze_revenue ==
    /\ pc = "revenue"
    /\ stdout' = Append(stdout, "1. Revenue Analysis")
    /\ IF \E i \in DOMAIN Invoice : ~parses(Invoice[i].InvoiceDate)
       THEN /\ pc' = "raised"
            /\ error' = "ValueError"
            /\ UNCHANGED revenue_out
       ELSE /\ total_revenue' = sum(Invoice, "Total")
            /\ avg_invoice' = mean(Invoice, "Total")
            /\ invoices' = [i \in DOMAIN Invoice |->
                              Invoice[i] @@ ("YearMonth" :> year_month(Invoice[i]))]
            /\ monthly_revenue' =
                  sort_values_str(
                      groupby_sum(invoices', "YearMonth", "Total", "object"),
                      "YearMonth")
            /\ pc' = "customers"
            /\ error' = error
    /\ UNCHANGED <<tables, customers_out, genres_out, sales_by_rep>>

\* SELECT of some columns, with the names the query gives them.
select(table, cols) == [i \in DOMAIN table |-> [c \in cols |-> table[i][c]]]

read_genres == [i \in DOMAIN Genre |->
    [GenreId |-> Genre[i].GenreId, GenreName |-> Genre[i].Name]]

read_albums == [i \in DOMAIN Album |->
    [AlbumId |-> Album[i].AlbumId, AlbumTitle |-> Album[i].Title,
     ArtistId |-> Album[i].ArtistId]]

read_artists == [i \in DOMAIN Artist |->
    [ArtistId |-> Artist[i].ArtistId, ArtistName |-> Artist[i].Name]]

TopCustomers == 10

TopCountries == 3

analyze_customers ==
    /\ pc = "customers"
    /\ stdout' = Append(stdout, "2. Customer Behavior")
    /\ revenue_by_customer' =
          merge_left(groupby_sum(invoices, "CustomerId", "Total", "number"),
                     Customer, "CustomerId", "CustomerId",
                     {"CustomerId", "FirstName", "LastName", "SupportRepId"})
    /\ \E sorted \in sort_values(revenue_by_customer', "Total", FALSE) :
          top_customers' = head(sorted, TopCustomers)
    /\ revenue_by_country' \in
          sort_values(groupby_sum(invoices, "BillingCountry", "Total", "number"),
                      "Total", FALSE)
    /\ top3' = head(revenue_by_country', TopCountries)
    /\ pc' = "genres"
    /\ UNCHANGED <<tables, error, revenue_out, genres_out, sales_by_rep>>

analyze_artists_and_genres ==
    /\ pc = "genres"
    /\ stdout' = Append(stdout, "3. Artists & Genres Performance")
    /\ LET invoice_items == InvoiceLine
           genre_sales ==
               merge_left(
                   merge_left(invoice_items, select(Track, {"TrackId", "GenreId"}),
                              "TrackId", "TrackId", {"TrackId", "GenreId"}),
                   read_genres, "GenreId", "GenreId", {"GenreId", "GenreName"})
           artist_sales ==
               merge_left(
                   merge_left(
                       merge_left(invoice_items, select(Track, {"TrackId", "AlbumId"}),
                                  "TrackId", "TrackId", {"TrackId", "AlbumId"}),
                       read_albums, "AlbumId", "AlbumId",
                       {"AlbumId", "AlbumTitle", "ArtistId"}),
                   read_artists, "ArtistId", "ArtistId", {"ArtistId", "ArtistName"})
       IN  /\ genre_agg' \in
                 sort_values(groupby_sum(genre_sales, "GenreName", "Quantity", "number"),
                             "Quantity", FALSE)
           /\ artist_agg' \in
                 sort_values(groupby_sum(artist_sales, "ArtistName", "Quantity", "number"),
                             "Quantity", FALSE)
           /\ album_agg' \in
                 sort_values(groupby_sum(artist_sales, "AlbumTitle", "Quantity", "number"),
                             "Quantity", FALSE)
    /\ pc' = "salespersons"
    /\ UNCHANGED <<tables, error, revenue_out, customers_out, sales_by_rep>>

analyze_salespersons ==
    /\ pc = "salespersons"
    /\ stdout' = stdout \o <<"4. Sales Performance", "Analysis complete">>
    /\ LET customers == select(Customer, {"CustomerId", "SupportRepId"})
           invoice_with_rep ==
               merge_left(invoices, customers, "CustomerId", "CustomerId",
                          {"CustomerId", "SupportRepId"})
       IN  sales_by_rep' \in
             sort_values(
                 merge_left(
                     groupby_sum(invoice_with_rep, "SupportRepId", "Total", "number"),
                     Employee, "SupportRepId", "EmployeeId",
                     {"EmployeeId", "FirstName", "LastName"}),
                 "Total", FALSE)
    /\ pc' = "done"
    /\ UNCHANGED <<tables, error, revenue_out, customers_out, genres_out>>

\* main(): the stages in order; an exception of a stage leaves main().
main ==
    \/ setup_engine
    \/ analyze_revenue
    \/ analyze_customers
    \/ analyze_artists_and_genres
    \/ analyze_salespersons

Next == main

-----------------------------------------------------------------------------
(* Inputs *)

SeqsUpTo(S, n) == UNION {[1..k -> S] : k \in 0..n}

\* The rows with their primary key, 1, 2, ... in table order.
numbered(rows, id) == [i \in DOMAIN rows |-> rows[i] @@ (id :> i)]

Date(y, m, d) == [year |-> y, month |-> m, day |-> d]

Dates == {Date(2009, 9, 30), Date(2009, 10, 1), Date(2009, 10, 20), Date(2010, 1, 15)}

Malformed == Date(2009, 13, 1)

CustomerRow(id, rep) ==
    [CustomerId |-> id, FirstName |-> id, LastName |-> id, SupportRepId |-> rep]

EmployeeRow(id) == [EmployeeId |-> id, FirstName |-> id, LastName |-> id]

TrackRow(id, album, genre) == [TrackId |-> id, AlbumId |-> album, GenreId |-> genre]

AlbumRow(id, title, artist) == [AlbumId |-> id, Title |-> title, ArtistId |-> artist]

Named(col, id, name) == (col :> id) @@ ("Name" :> name)

SampleInvoices ==
    numbered(<<[CustomerId |-> 1, Total |-> 2, BillingCountry |-> 1,
                InvoiceDate |-> Date(2009, 9, 30)]>>, "InvoiceId")

SampleCustomers == <<CustomerRow(1, 1), CustomerRow(2, NULL)>>

SampleEmployees == <<EmployeeRow(1)>>

SampleLines ==
    numbered(<<[TrackId |-> 1, Quantity |-> 1]>>, "InvoiceLineId")

SampleTracks == <<TrackRow(1, 1, 1), TrackRow(2, 2, 2)>>

SampleGenres == <<Named("GenreId", 1, 1), Named("GenreId", 2, 2)>>

SampleAlbums == <<AlbumRow(1, 1, 1), AlbumRow(2, 2, 2)>>

SampleArtists == <<Named("ArtistId", 1, 1), Named("ArtistId", 2, 2)>>

\* main() has not started.
Start ==
    /\ pc = "setup"
    /\ error = "none"
    /\ stdout = <<>>
    /\ invoices = <<>>
    /\ total_revenue = 0
    /\ avg_invoice = unset
    /\ monthly_revenue = <<>>
    /\ revenue_by_customer = <<>>
    /\ top_customers = <<>>
    /\ revenue_by_country = <<>>
    /\ top3 = <<>>
    /\ genre_agg = <<>>
    /\ artist_agg = <<>>
    /\ album_agg = <<>>
    /\ sales_by_rep = <<>>

\* No database file: there are no tables to read.
NoDatabase ==
    /\ db_exists = FALSE
    /\ Invoice = <<>> /\ Customer = <<>> /\ Employee = <<>> /\ InvoiceLine = <<>>
    /\ Track = <<>> /\ Genre = <<>> /\ Album = <<>> /\ Artist = <<>>

SamplePeople == Customer = SampleCustomers /\ Employee = SampleEmployees

SampleCatalog ==
    /\ InvoiceLine = SampleLines
    /\ Track = SampleTracks
    /\ Genre = SampleGenres
    /\ Album = SampleAlbums
    /\ Artist = SampleArtists

\* Invoices that vary in total and date, malformed dates among them.
RevenueInvoices ==
    {numbered(s, "InvoiceId") :
        s \in SeqsUpTo([CustomerId : {1}, Total : {5, 42}, BillingCountry : {1},
                        InvoiceDate : Dates \cup {Malformed}], MaxInvoices)}

InitRevenue ==
    /\ Start
    /\ \/ NoDatabase
       \/ /\ db_exists = TRUE
          /\ Invoice \in RevenueInvoices
          /\ SamplePeople
          /\ SampleCatalog

SpecRevenue == InitRevenue /\ [][Next]_vars

ADate == Date(2009, 9, 30)

\* Invoices that vary in customer (NULL, with and without a Customer row).
CustomerInvoices ==
    {numbered(s, "InvoiceId") :
        s \in SeqsUpTo([CustomerId : {NULL, 1, 2, 3}, Total : {1, 2},
                        BillingCountry : {1}, InvoiceDate : {ADate}], MaxCustInvoices)}

\* Invoices that vary in billing country (NULL among them): of total 1 in
\* any country, of total 2 in country 1 or none.
CountryInvoices ==
    {numbered(s, "InvoiceId") :
        s \in SeqsUpTo([CustomerId : {1}, Total : {1},
                        BillingCountry : {NULL, 1, 2, 3, 4}, InvoiceDate : {ADate}]
                       \cup [CustomerId : {1}, Total : {2},
                             BillingCountry : {NULL, 1}, InvoiceDate : {ADate}],
                       MaxCountryInvoices)}

\* One invoice per customer 1..NumWide, over four countries: totals rising,
\* falling, or rising with the last customer tied with the first.
WideTotals ==
    {[i \in 1..NumWide |-> i],
     [i \in 1..NumWide |-> NumWide + 1 - i],
     [i \in 1..NumWide |-> IF i = NumWide THEN 1 ELSE i]}

WideInvoices ==
    {[i \in 1..NumWide |->
        [InvoiceId |-> i, CustomerId |-> i, Total |-> t[i],
         BillingCountry |-> ((i - 1) % 4) + 1, InvoiceDate |-> ADate]] :
     t \in WideTotals}

InitCustomers ==
    /\ Start
    /\ \/ NoDatabase
       \/ /\ db_exists = TRUE
          /\ Invoice \in CustomerInvoices \cup CountryInvoices \cup WideInvoices
          /\ SamplePeople
          /\ SampleCatalog

SpecCustomers == InitCustomers /\ [][Next]_vars

\* Invoices, customers with any or no representative, employees 1 and 2 or fewer.
SalesInvoices ==
    {numbered(s, "InvoiceId") :
        s \in SeqsUpTo([CustomerId : {NULL, 1, 2, 3}, Total : {1, 2},
                        BillingCountry : {1}, InvoiceDate : {ADate}], MaxSalesInvoices)}

InitSales ==
    /\ Start
    /\ \/ NoDatabase
       \/ /\ db_exists = TRUE
          /\ Invoice \in SalesInvoices
          /\ \E r1, r2 \in {NULL, 1, 2} :
                Customer = <<CustomerRow(1, r1), CustomerRow(2, r2)>>
          /\ Employee \in {<<>>, <<EmployeeRow(1)>>, <<EmployeeRow(1), EmployeeRow(2)>>}
          /\ SampleCatalog

SpecSales == InitSales /\ [][Next]_vars

\* Invoice lines on tracks 1, 2 and 3 (3 is no track); track 2 and album 2
\* with any or no genre, album, title, artist (3 is no genre, no artist).
CatalogLines ==
    {numbered(s, "InvoiceLineId") :
        s \in SeqsUpTo([TrackId : {1, 2, 3}, Quantity : {1, 2}], MaxLines)}

InitCatalog ==
    /\ Start
    /\ \/ NoDatabase
       \/ /\ db_exists = TRUE
          /\ Invoice = SampleInvoices
          /\ SamplePeople
          /\ InvoiceLine \in CatalogLines
          /\ \E a2 \in {NULL, 1, 2}, g2 \in {NULL, 1, 2, 3} :
                Track = <<TrackRow(1, 1, 1), TrackRow(2, a2, g2)>>
          /\ Genre = SampleGenres
          /\ \E t2 \in {NULL, 1, 2}, r2 \in {NULL, 1, 2, 3} :
                Album = <<AlbumRow(1, 1, 1), AlbumRow(2, t2, r2)>>
          /\ Artist = SampleArtists

SpecCatalog == InitCatalog /\ [][Next]_vars

-----------------------------------------------------------------------------
(* Properties *)

RevenueDone == pc \in {"customers", "genres", "salespersons", "done"}

CustomersDone == pc \in {"genres", "salespersons", "done"}

GenresDone == pc \in {"salespersons", "done"}

SalesDone == pc = "done"

\* The sum of column col over the rows of df with index in idx.
RECURSIVE SumOver(_, _, _)
SumOver(df, col, idx) ==
    IF idx = {} THEN 0
    ELSE LET i == CHOOSE i \in idx : TRUE
         IN  df[i][col] + SumOver(df, col, idx \ {i})

AllOf(df, col) == SumOver(df, col, DOMAIN df)

NonIncreasing(df, col) ==
    \A i, j \in DOMAIN df : i < j => df[i][col] >= df[j][col]

\* Rows of equal value keep the order of the groups (ascending key).
StableOn(df, col, key) ==
    \A i, j \in DOMAIN df :
        (i < j /\ df[i][col] = df[j][col]) => df[i][key] < df[j][key]

\* C1: the totals of all buckets of revenueByEmployee(), the bucket of the
\* invoices without representative included, add up to the sum of all
\* invoice totals: no invoice is dropped.
C1_SalesByRepSumsToTotalRevenue ==
    SalesDone =>
        /\ AllOf(sales_by_rep, "Total") = AllOf(Invoice, "Total")
        /\ AllOf(sales_by_rep, "Total") = total_revenue

\* C2: the quantities of all genre buckets add up to the quantities of all
\* invoice lines, and so do those of the artist buckets and of the album
\* buckets; a line whose track is no row of Track is counted in a bucket of
\* genre_agg whose label is no genre's name.
C2_CatalogSumsToLineQuantities ==
    GenresDone =>
        /\ AllOf(genre_agg, "Quantity") = AllOf(InvoiceLine, "Quantity")
        /\ AllOf(artist_agg, "Quantity") = AllOf(InvoiceLine, "Quantity")
        /\ AllOf(album_agg, "Quantity") = AllOf(InvoiceLine, "Quantity")
        /\ (\E i \in DOMAIN InvoiceLine :
               \A t \in DOMAIN Track : Track[t].TrackId # InvoiceLine[i].TrackId)
           => \E b \in DOMAIN genre_agg : genre_agg[b].GenreName = NULL

\* C3: the average over zero invoices ends in EmptyInputError and is never
\* NaN; the average of the single invoice of total 42 is 42.
C3_AverageOfNoInvoicesIsAnError ==
    (db_exists /\ pc \notin {"setup", "revenue"}) =>
        /\ Len(Invoice) = 0 =>
              (error = "EmptyInputError" /\ avg_invoice.kind # "nan")
        /\ (Len(Invoice) = 1 /\ Invoice[1].Total = 42 /\ RevenueDone) =>
              (avg_invoice.kind = "value" /\ avg_invoice.num = 42 * avg_invoice.den)

\* C4: the totals of all customer buckets, untruncated, add up to the sum of
\* all invoice totals, whatever the invoices' customer ids.
C4_CustomerBucketsSumToTotalRevenue ==
    CustomersDone =>
        /\ AllOf(revenue_by_customer, "Total") = AllOf(Invoice, "Total")
        /\ AllOf(revenue_by_customer, "Total") = total_revenue

\* C5: every invoice without country is counted in a bucket for the unknown
\* country, and the untruncated country totals add up to the sum of all
\* invoice totals.
C5_CountryBucketsKeepUnknown ==
    CustomersDone =>
        /\ AllOf(revenue_by_country, "Total") = AllOf(Invoice, "Total")
        /\ (\E i \in DOMAIN Invoice : Invoice[i].BillingCountry = NULL)
           => \E b \in DOMAIN revenue_by_country :
                 /\ revenue_by_country[b].BillingCountry = NULL
                 /\ revenue_by_country[b].Total =
                       SumOver(Invoice, "Total",
                               {i \in DOMAIN Invoice : Invoice[i].BillingCountry = NULL})

\* C6: when main() has ended on a database that exists, the customer, catalog
\* and sales-representative stages have all been run, whether or not an
\* earlier stage failed.
C6_FailedStageIsNotFatal ==
    (db_exists /\ pc \in {"done", "raised"}) =>
        \A h \in {"2. Customer Behavior", "3. Artists & Genres Performance",
                  "4. Sales Performance"} :
            \E i \in DOMAIN stdout : stdout[i] = h

\* The months that have an invoice, and the label "YYYY-MM" of a month.
Months ==
    {<<Invoice[i].InvoiceDate.year, Invoice[i].InvoiceDate.month>> : i \in DOMAIN Invoice}

InMonth(ym) ==
    {i \in DOMAIN Invoice :
        Invoice[i].InvoiceDate.year = ym[1] /\ Invoice[i].InvoiceDate.month = ym[2]}

Label(ym) ==
    <<48 + (ym[1] \div 1000), 48 + ((ym[1] \div 100) % 10), 48 + ((ym[1] \div 10) % 10),
      48 + (ym[1] % 10), 45, 48 + (ym[2] \div 10), 48 + (ym[2] % 10)>>

Earlier(a, b) == a[1] < b[1] \/ (a[1] = b[1] /\ a[2] < b[2])

\* C7: monthlyRevenueSeries() has one bucket per year-month that has an
\* invoice and no other, in ascending order of year-month; a bucket's total is
\* the sum of the invoices of its month, and the bucket totals add up to
\* totalRevenue().
C7_MonthlySeries ==
    RevenueDone =>
        /\ Len(monthly_revenue) = Cardinality(Months)
        /\ \A b \in DOMAIN monthly_revenue :
              \E ym \in Months :
                 /\ monthly_revenue[b].YearMonth = Label(ym)
                 /\ monthly_revenue[b].Total = SumOver(Invoice, "Total", InMonth(ym))
        /\ \A b, c \in DOMAIN monthly_revenue :
              b < c => \E ym, zm \in Months :
                          /\ monthly_revenue[b].YearMonth = Label(ym)
                          /\ monthly_revenue[c].YearMonth = Label(zm)
                          /\ Earlier(ym, zm)
        /\ AllOf(monthly_revenue, "Total") = total_revenue
        /\ total_revenue = AllOf(Invoice, "Total")

\* Three invoices in two months, September and October of one year.
C7_Witness ==
    /\ RevenueDone
    /\ Len(Invoice) = 3
    /\ Len(monthly_revenue) = 2
    /\ monthly_revenue[1].YearMonth = Label(<<2009, 9>>)
    /\ monthly_revenue[2].YearMonth = Label(<<2009, 10>>)
    /\ monthly_revenue[2].Total = 47

\* The groups of the invoices by a key column: the keys that are not NULL.
Groups(key) == {Invoice[i][key] : i \in DOMAIN Invoice} \ {NULL}

GroupTotal(key, k) ==
    SumOver(Invoice, "Total", {i \in DOMAIN Invoice : Invoice[i][key] = k})

\* df holds the n groups of greatest total (all groups if there are at most
\* n), each once with its total, in non-increasing order of total.
TopN(df, key, n) ==
    /\ NonIncreasing(df, "Total")
    /\ Len(df) <= n
    /\ Len(df) = Min(n, Cardinality(Groups(key)))
    /\ \A i \in DOMAIN df :
          /\ df[i][key] \in Groups(key)
          /\ df[i].Total = GroupTotal(key, df[i][key])
    /\ \A i, j \in DOMAIN df : i # j => df[i][key] # df[j][key]
    /\ \A k \in Groups(key) :
          (\A i \in DOMAIN df : df[i][key] # k)
          => \A i \in DOMAIN df : df[i].Total >= GroupTotal(key, k)

\* C8: topCustomersByRevenue and topCountriesByRevenue are in non-increasing
\* order of summed total and hold at most 10 and 3 entries: the groups of
\* greatest total, and every group when there are no more than that.
C8_TopCustomersAndCountries ==
    CustomersDone =>
        /\ TopN(top_customers, "CustomerId", 10)
        /\ TopN(top3, "BillingCountry", 3)

\* Eleven customers cut to ten and four countries cut to three.
C8_Witness ==
    /\ CustomersDone
    /\ Cardinality(Groups("CustomerId")) = 11
    /\ Len(top_customers) = 10
    /\ Cardinality(Groups("BillingCountry")) = 4
    /\ Len(top3) = 3

\* An album bucket belongs to an artist when an album of that title is by an
\* artist of that name.
BelongsTo(title, name) ==
    \E a \in DOMAIN Album, r \in DOMAIN Artist :
        /\ Album[a].Title = title
        /\ Album[a].ArtistId = Artist[r].ArtistId
        /\ Artist[r].Name = name

\* C9: for every artist bucket, the quantities of the album buckets that
\* belong to the artist add up to the artist's quantity.
C9_AlbumsAddUpToArtist ==
    GenresDone =>
        \A a \in DOMAIN artist_agg :
            SumOver(album_agg, "Quantity",
                    {b \in DOMAIN album_agg :
                        BelongsTo(album_agg[b].AlbumTitle, artist_agg[a].ArtistName)})
            = artist_agg[a].Quantity

\* C10: every ranking is a stable descending sort: groups of equal total
\* stand in the order of the groups.
C10_RankingIsStable ==
    /\ CustomersDone =>
          /\ StableOn(top_customers, "Total", "CustomerId")
          /\ StableOn(revenue_by_country, "Total", "BillingCountry")
    /\ GenresDone =>
          /\ StableOn(genre_agg, "Quantity", "GenreName")
          /\ StableOn(artist_agg, "Quantity", "ArtistName")
          /\ StableOn(album_agg, "Quantity", "AlbumTitle")
    /\ SalesDone => StableOn(sales_by_rep, "Total", "SupportRepId")

=============================================================================
